---- MODULE Spec2Model ----
(***************************************************************************)
(* RingsVisualization (src/src/components/RingsVisualization.tsx): the     *)
(* circle-packing view with click-to-zoom focus, animated view transform,  *)
(* ring labels and the hover bridge to the host's onNodeHover listener.    *)
(*                                                                         *)
(* Four specifications share the module:                                   *)
(*   Spec       the focus controller: clicks, the reset button, animation  *)
(*              frames and tree rebuilds;                                  *)
(*   HoverSpec  the hover bridge: pointer events and clicks interleaved    *)
(*              with the host's renders and the [onNodeHover] effect;      *)
(*   SumSpec    root.sum(d => d.value || 1) applied node by node to        *)
(*              hierarchies drawn from bounded sets;                       *)
(*   LabelSpec  the label loop body (nodes.forEach) applied to one node    *)
(*              drawn from bounded sets.                                   *)
(*                                                                         *)
(* Lengths and scales are fixed-point integers, Unit to the pixel.  d3's   *)
(* transition scheduling is modelled as d3-transition documents it: a      *)
(* transition is created by .transition(), starts on the next timer flush, *)
(* and on starting interrupts the running transition of the element and    *)
(* cancels the older pending ones.                                         *)
(***************************************************************************)
EXTENDS Integers, Sequences, FiniteSets, TLC

\* ------------------------------------------------------------------ bounds
MaxViewNodes == 2
MaxAsts == 2
MaxTransitions == 3
MaxListeners == 2
MaxLog == 3
AnimSteps == 2
MaxSumNodes == 4
MaxWeight == 2
MaxLabelLen == 35
MaxDepth == 1

\* ------------------------------------------------------- program constants
width == 800
height == 600
margin == 50
resetTranslate == 50
minLabelRadius == 30
arcInset == 5
baseFontSize == 40
fontSizeDepthStep == 3
minFontSize == 24
PiNum == 355
PiDen == 113
ellipsisCut == 2

\* fixed-point scale of lengths and zoom factors
Unit == 10 * 10 * 10

VARIABLES
  \* ---- the mounted component
  astId,          \* identity of the current ast prop (a new SourceFile each rebuild)
  parent,         \* the hierarchy built from it: node -> parent node (0 for the root)
  circle,         \* pack layout: node -> <<x, y, r>> in pixels
  focusedNode,    \* React state focusedNode: an ast node or Null
  transform,      \* the zoom group's transform attribute <<tx, ty, scale>>
  schedules,      \* the zoom group's d3 transitions (node.__transition)
  nextId,         \* d3-transition's id counter
  labelOpacity,   \* labelled node -> opacity style of its .ring-label text
  groupStyled,    \* the zoom group carries an explicit opacity style
  hovered,        \* circle under the pointer (0: none)
  highlighted,    \* circles carrying the hover attributes
  onNodeHoverProp,\* the listener the host supplied with its latest render (0: none)
  onNodeHoverRef, \* onNodeHoverRef.current
  effectPending,  \* the [onNodeHover] effect is scheduled and has not run
  log,            \* history: listener calls made, in order
  lastAction,     \* history: the last click / reset
  interrupted,    \* history: ids of transitions interrupted or cancelled
  endRan,         \* history: ids of transitions whose 'end' handler ran
  lastWriter,     \* history: id of the transition that last wrote transform
  lastStartFrom,  \* history: the transform the last started transition started from
  \* ---- SumSpec
  sumParent,      \* hierarchy under summation: node -> parent
  rawValue,       \* node -> data.value as supplied ([def, v])
  sumValue,       \* node -> node.value once visited
  contrib,        \* history: node -> what the accessor returned for it
  sumTodo,        \* eachAfter's remaining visiting order
  \* ---- LabelSpec
  labelIn,        \* the node under the label loop: [depth, r, name]
  labelOut        \* [done, drawn, text]

viewVars == <<astId, parent, circle, focusedNode, transform, schedules, nextId,
              labelOpacity, groupStyled, hovered, highlighted, onNodeHoverProp,
              onNodeHoverRef, effectPending, log, lastAction, interrupted,
              endRan, lastWriter, lastStartFrom>>
sumVars == <<sumParent, rawValue, sumValue, contrib, sumTodo>>
labelVars == <<labelIn, labelOut>>
vars == <<viewVars, sumVars, labelVars>>

\* ------------------------------------------------------------ hierarchies
\* Rooted ordered trees on 1..n: node 1 is the root, a node's parent has a
\* smaller index, siblings are ordered by index.
TreesOf(n) ==
  {p \in [1..n -> 0..n] : p[1] = 0 /\ \A i \in 2..n : p[i] \in 1..(i - 1)}

NodesOf(p) == DOMAIN p

ChildrenOf(p, i) == {c \in DOMAIN p : p[c] = i}

RECURSIVE DepthOf(_, _)
DepthOf(p, i) == IF p[i] = 0 THEN 0 ELSE 1 + DepthOf(p, p[i])

RECURSIVE SeqOfSet(_)
SeqOfSet(S) ==
  IF S = {} THEN <<>>
  ELSE LET m == CHOOSE x \in S : \A y \in S : x <= y
       IN <<m>> \o SeqOfSet(S \ {m})

Null == <<0, 0>>

noTransform == <<0, 0, 0>>

\* ------------------------------------------------- TreeFlattener (ast -> data)
\* An ast node of the current SourceFile; every rebuild parses a new file, so
\* its nodes are new objects.
AstNodeOf(n) == <<astId, n>>

\* ------------------------------------------------------------ pack layout
viewWidth == width - margin * 2

viewHeight == height - margin * 2

centerX == viewWidth \div 2

centerY == viewHeight \div 2

targetSize == IF viewWidth < viewHeight THEN viewWidth ELSE viewHeight

\* d3.pack scales the root to the centre of the size box, radius min(dx,dy)/2.
rootCircle == <<centerX, centerY, targetSize \div 2>>

\* Circles d3.pack may give the other nodes (the packing itself is d3's).
ChildCircles == {<<225, 250, 100>>, <<500, 250, 100>>, <<225, 250, 40>>, <<480, 260, 20>>}

Inside(c, o) ==
  /\ c[3] < o[3]
  /\ (c[1] - o[1]) * (c[1] - o[1]) + (c[2] - o[2]) * (c[2] - o[2])
       <= (o[3] - c[3]) * (o[3] - c[3])

Apart(a, b) ==
  (a[1] - b[1]) * (a[1] - b[1]) + (a[2] - b[2]) * (a[2] - b[2])
    >= (a[3] + b[3]) * (a[3] + b[3])

Layouts(p) ==
  {c \in [NodesOf(p) -> ChildCircles \cup {rootCircle}] :
     /\ c[1] = rootCircle
     /\ \A i \in NodesOf(p) \ {1} : Inside(c[i], c[p[i]])
     /\ \A i, j \in NodesOf(p) \ {1} : (i # j /\ p[i] = p[j]) => Apart(c[i], c[j])}

ViewTrees == UNION {TreesOf(n) : n \in 1..MaxViewNodes}

\* ------------------------------------------------------------------ labels
getFontSize(depth) ==
  LET baseSize == baseFontSize - depth * fontSizeDepthStep
  IN IF baseSize > minFontSize THEN baseSize ELSE minFontSize

\* line 172: only the top-level ring, and only when large enough
HasLabel(depth, r) == depth = 0 /\ r > minLabelRadius

labelElements(p, c) == {n \in NodesOf(p) : HasLabel(DepthOf(p, n), c[n][3])}

\* -------------------------------------------------------------- transforms
initialTransform == <<margin * Unit, margin * Unit, Unit>>

\* a reset that forgets the margin offset
resetTargetNoMargin == <<0, 0, Unit>>

\* handleResetZoom's target 'translate(50, 50)': no scale() is the identity scale
resetTarget == <<resetTranslate * Unit, resetTranslate * Unit, Unit>>

\* the click handler's target for a circle c = <<x, y, r>>
clickTarget(c) ==
  LET scale == (targetSize * Unit) \div (c[3] * 2)
      translateX == centerX * Unit - c[1] * scale
      translateY == centerY * Unit - c[2] * scale
  IN <<margin * Unit + translateX, margin * Unit + translateY, scale>>

\* d3.easeCubicOut at t = k / AnimSteps, as a fraction of EaseDen
EaseDen == AnimSteps * AnimSteps * AnimSteps

easeCubicOut(k) == EaseDen - (AnimSteps - k) * (AnimSteps - k) * (AnimSteps - k)

Lerp(a, b, k) == a + ((b - a) * easeCubicOut(k)) \div EaseDen

\* d3.interpolateTransformSvg: translate and scale interpolated separately
Interpolate(a, b, k) == <<Lerp(a[1], b[1], k), Lerp(a[2], b[2], k), Lerp(a[3], b[3], k)>>

\* ----------------------------------------------------------- d3 transitions
\* A view is what an animation frame reads and writes.
ViewOf(tr, sc, lo, gs, ir, er, lw, sf) ==
  [transform |-> tr, schedules |-> sc, labelOpacity |-> lo, groupStyled |-> gs,
   interrupted |-> ir, endRan |-> er, lastWriter |-> lw, lastStartFrom |-> sf]

NewSchedule(id, kind, n, to) ==
  [id |-> id, state |-> "CREATED", kind |-> kind, node |-> n,
   from |-> noTransform, to |-> to, k |-> 0]

\* the 'end' handler of the click transition (lines 136-142): labelElements.find,
\* then d3.select(clickedLabel.text), where text is the label's parentElement,
\* the zoom group itself
clickEnd(v, n) ==
  IF n \in DOMAIN v.labelOpacity
  THEN [v EXCEPT !.groupStyled = TRUE]
  ELSE v

\* the 'end' handler of the reset transition (lines 230-233)
resetEnd(v) ==
  [v EXCEPT !.labelOpacity = [m \in DOMAIN v.labelOpacity |-> 1]]

OnEnd(v, s) == IF s.kind = "click" THEN clickEnd(v, s.node) ELSE resetEnd(v)

\* one tick of a running transition after dt more steps of its duration
Tick(v, s, dt) ==
  LET k2 == IF s.k + dt < AnimSteps THEN s.k + dt ELSE AnimSteps
      w == [v EXCEPT !.transform = Interpolate(s.from, s.to, k2),
                     !.lastWriter = s.id]
  IN IF k2 = AnimSteps
     THEN OnEnd([w EXCEPT !.schedules = v.schedules \ {s},
                          !.endRan = v.endRan \cup {s.id}], s)
     ELSE [w EXCEPT !.schedules = (v.schedules \ {s}) \cup {[s EXCEPT !.k = k2]}]

\* the transitions a starting transition ends: the running one is interrupted,
\* older pending ones are cancelled
PreemptedRunningKept(sc, id) == {o \in sc : o.id < id /\ o.state # "RUNNING"}

Preempted(sc, id) == {o \in sc : o.id # id /\ (o.state = "RUNNING" \/ o.id < id)}

\* a created transition starts: its tween reads the current attribute value
Start(v, s) ==
  LET gone == Preempted(v.schedules, s.id)
  IN [v EXCEPT !.schedules = (v.schedules \ (gone \cup {s}))
                   \cup {[s EXCEPT !.state = "RUNNING", !.from = v.transform, !.k = 0]},
               !.interrupted = v.interrupted \cup {o.id : o \in gone},
               !.lastStartFrom = v.transform]

\* d3-timer's flush: the timers are called in the order they were created
RECURSIVE Flush(_, _, _)
Flush(v, ids, dt) ==
  IF ids = <<>> THEN v
  ELSE LET live == {s \in v.schedules : s.id = Head(ids)}
       IN IF live = {} THEN Flush(v, Tail(ids), dt)
          ELSE LET s == CHOOSE x \in live : TRUE
               IN Flush(IF s.state = "RUNNING" THEN Tick(v, s, dt) ELSE Start(v, s),
                        Tail(ids), dt)

\* ------------------------------------------------------------ hover bridge
\* onNodeHoverRef.current?.(arg); log records the calls made
DispatchTwice(lg, arg) ==
  IF onNodeHoverRef = 0 THEN lg
  ELSE lg \o << [to |-> onNodeHoverRef, arg |-> arg],
                [to |-> onNodeHoverRef, arg |-> arg] >>

Dispatch(lg, arg) ==
  IF onNodeHoverRef = 0 THEN lg
  ELSE Append(lg, [to |-> onNodeHoverRef, arg |-> arg])

\* keeps the recorded calls within MaxLog
CanDispatch == onNodeHoverRef = 0 \/ Len(log) < MaxLog

\* ----------------------------------------------------------------- actions
\* setFocusedNode(clickedNode.data.astNode), line 107
FocusAfterClickSticky(cur, n) == IF cur = Null THEN AstNodeOf(n) ELSE cur

FocusAfterClick(cur, n) == AstNodeOf(n)

\* the state the build effect (lines 24-216) leaves for tree p laid out as c
Built(p, c) ==
  /\ parent' = p
  /\ circle' = c
  /\ transform' = initialTransform
  /\ schedules' = {}
  /\ labelOpacity' = [n \in labelElements(p, c) |-> 1]
  /\ groupStyled' = FALSE
  /\ hovered' = 0
  /\ highlighted' = {}
  /\ lastWriter' = 0
  /\ lastStartFrom' = noTransform

\* the variables of SumSpec and LabelSpec, at rest under the other specifications
SumIdle ==
  /\ sumParent = <<0>>
  /\ rawValue = <<[def |-> TRUE, v |-> 1]>>
  /\ sumValue = <<0>>
  /\ contrib = <<0>>
  /\ sumTodo = <<>>

LabelIdle ==
  /\ labelIn = [depth |-> 0, r |-> 0, name |-> <<>>]
  /\ labelOut = [done |-> TRUE, drawn |-> FALSE, text |-> <<>>]

Init ==
  /\ astId = 1
  /\ \E p \in ViewTrees : \E c \in Layouts(p) :
       /\ parent = p
       /\ circle = c
       /\ labelOpacity = [n \in labelElements(p, c) |-> 1]
  /\ transform = initialTransform
  /\ schedules = {}
  /\ nextId = 1
  /\ groupStyled = FALSE
  /\ hovered = 0
  /\ highlighted = {}
  /\ focusedNode = Null
  /\ onNodeHoverProp \in 0..MaxListeners
  /\ onNodeHoverRef = onNodeHoverProp
  /\ effectPending = FALSE
  /\ log = <<>>
  /\ lastAction = [type |-> "none", node |-> Null, build |-> 0]
  /\ interrupted = {}
  /\ endRan = {}
  /\ lastWriter = 0
  /\ lastStartFrom = noTransform
  /\ SumIdle
  /\ LabelIdle

\* circles.on('click'), lines 103-146
Click(n) ==
  /\ n \in NodesOf(parent)
  /\ nextId <= MaxTransitions
  /\ CanDispatch
  /\ focusedNode' = FocusAfterClick(focusedNode, n)
  /\ labelOpacity' = [m \in DOMAIN labelOpacity |-> 0]
  /\ schedules' = schedules \cup {NewSchedule(nextId, "click", n, clickTarget(circle[n]))}
  /\ nextId' = nextId + 1
  /\ log' = Dispatch(log, AstNodeOf(n))
  /\ lastAction' = [type |-> "click", node |-> AstNodeOf(n), build |-> astId]
  /\ UNCHANGED <<astId, parent, circle, transform, groupStyled, hovered, highlighted,
                 onNodeHoverProp, onNodeHoverRef, effectPending, interrupted, endRan,
                 lastWriter, lastStartFrom>>
  /\ UNCHANGED <<sumVars, labelVars>>

\* handleResetZoom, lines 219-234; the button exists only while focusedNode is set
handleResetZoom ==
  /\ focusedNode # Null
  /\ nextId <= MaxTransitions
  /\ focusedNode' = Null
  /\ schedules' = schedules \cup {NewSchedule(nextId, "reset", 0, resetTarget)}
  /\ nextId' = nextId + 1
  /\ lastAction' = [type |-> "reset", node |-> Null, build |-> astId]
  /\ UNCHANGED <<astId, parent, circle, transform, labelOpacity, groupStyled, hovered,
                 highlighted, onNodeHoverProp, onNodeHoverRef, effectPending, log,
                 interrupted, endRan, lastWriter, lastStartFrom>>
  /\ UNCHANGED <<sumVars, labelVars>>

\* one animation frame: every timer of the zoom group is called once
Frame(dt) ==
  /\ schedules # {}
  /\ LET v == Flush(ViewOf(transform, schedules, labelOpacity, groupStyled,
                           interrupted, endRan, lastWriter, lastStartFrom),
                    SeqOfSet({s.id : s \in schedules}), dt)
     IN /\ transform' = v.transform
        /\ schedules' = v.schedules
        /\ labelOpacity' = v.labelOpacity
        /\ groupStyled' = v.groupStyled
        /\ interrupted' = v.interrupted
        /\ endRan' = v.endRan
        /\ lastWriter' = v.lastWriter
        /\ lastStartFrom' = v.lastStartFrom
  /\ UNCHANGED <<astId, parent, circle, focusedNode, nextId, hovered, highlighted,
                 onNodeHoverProp, onNodeHoverRef, effectPending, log, lastAction>>
  /\ UNCHANGED <<sumVars, labelVars>>

\* circles.on('mouseenter'), lines 147-155
MouseEnter(n) ==
  /\ n \in NodesOf(parent)
  /\ hovered = 0
  /\ CanDispatch
  /\ hovered' = n
  /\ highlighted' = highlighted \cup {n}
  /\ log' = Dispatch(log, AstNodeOf(n))
  /\ UNCHANGED <<astId, parent, circle, focusedNode, transform, schedules, nextId,
                 labelOpacity, groupStyled, onNodeHoverProp, onNodeHoverRef,
                 effectPending, lastAction, interrupted, endRan, lastWriter,
                 lastStartFrom>>
  /\ UNCHANGED <<sumVars, labelVars>>

\* circles.on('mouseleave'), lines 156-164
MouseLeave(n) ==
  /\ hovered = n
  /\ n # 0
  /\ CanDispatch
  /\ hovered' = 0
  /\ highlighted' = highlighted \ {n}
  /\ log' = Dispatch(log, Null)
  /\ UNCHANGED <<astId, parent, circle, focusedNode, transform, schedules, nextId,
                 labelOpacity, groupStyled, onNodeHoverProp, onNodeHoverRef,
                 effectPending, lastAction, interrupted, endRan, lastWriter,
                 lastStartFrom>>
  /\ UNCHANGED <<sumVars, labelVars>>

\* the host renders the component with a new onNodeHover prop; React schedules
\* the [onNodeHover] effect, which runs later
HostRender(l) ==
  /\ l # onNodeHoverProp
  /\ onNodeHoverProp' = l
  /\ effectPending' = TRUE
  /\ UNCHANGED <<astId, parent, circle, focusedNode, transform, schedules, nextId,
                 labelOpacity, groupStyled, hovered, highlighted, onNodeHoverRef, log,
                 lastAction, interrupted, endRan, lastWriter, lastStartFrom>>
  /\ UNCHANGED <<sumVars, labelVars>>

\* the effect of lines 20-22
HoverEffect ==
  /\ effectPending
  /\ onNodeHoverRef' = onNodeHoverProp
  /\ effectPending' = FALSE
  /\ UNCHANGED <<astId, parent, circle, focusedNode, transform, schedules, nextId,
                 labelOpacity, groupStyled, hovered, highlighted, onNodeHoverProp, log,
                 lastAction, interrupted, endRan, lastWriter, lastStartFrom>>
  /\ UNCHANGED <<sumVars, labelVars>>

\* the ast prop changes and the build effect (lines 24-216) runs: the old
\* elements, and the transitions on them, leave the document
Rebuild(p, c) ==
  /\ astId < MaxAsts
  /\ astId' = astId + 1
  /\ Built(p, c)
  /\ UNCHANGED <<focusedNode, nextId, onNodeHoverProp, onNodeHoverRef, effectPending,
                 log, lastAction, interrupted, endRan>>
  /\ UNCHANGED <<sumVars, labelVars>>

\* The focus controller and the animation: clicks, the reset button, animation
\* frames and tree rebuilds, for a component mounted with any listener.
Next ==
  \/ \E n \in 1..MaxViewNodes : Click(n)
  \/ handleResetZoom
  \/ \E dt \in 1..AnimSteps : Frame(dt)
  \/ \E p \in ViewTrees : \E c \in Layouts(p) : Rebuild(p, c)

Spec == Init /\ [][Next]_vars

\* The hover bridge: pointer events and clicks interleaved with the host's
\* renders and the effect that follows each.
HoverNext ==
  \/ \E n \in 1..MaxViewNodes : Click(n)
  \/ \E n \in 1..MaxViewNodes : MouseEnter(n)
  \/ \E n \in 1..MaxViewNodes : MouseLeave(n)
  \/ \E l \in 0..MaxListeners : HostRender(l)
  \/ HoverEffect

HoverSpec == Init /\ [][HoverNext]_vars

\* ---------------------------------------------------------------- root.sum
\* data.value as the hierarchy carries it: missing, or a number
Weights ==
  {[def |-> FALSE, v |-> 0]} \cup {[def |-> TRUE, v |-> x] : x \in (0 - 1)..MaxWeight}

\* the accessor d => d.value || 1 (line 42): a missing or zero value is falsy
valueOf(w) == IF w.def /\ w.v # 0 THEN w.v ELSE 1

RECURSIVE SumOver(_, _)
SumOver(f, S) ==
  IF S = {} THEN 0
  ELSE LET x == CHOOSE y \in S : TRUE IN f[x] + SumOver(f, S \ {x})

\* node.eachAfter's visiting order: a stack walk, then its list reversed
RECURSIVE eachAfterNext(_, _, _)
eachAfterNext(p, nodes, next) ==
  IF nodes = <<>> THEN next
  ELSE LET node == nodes[Len(nodes)]
       IN eachAfterNext(p, SubSeq(nodes, 1, Len(nodes) - 1) \o SeqOfSet(ChildrenOf(p, node)),
                        Append(next, node))

Reverse(q) == [i \in 1..Len(q) |-> q[Len(q) + 1 - i]]

eachAfterOrder(p) == Reverse(eachAfterNext(p, <<1>>, <<>>))

\* node.sum's callback: sum = +value(node.data) || 0, plus the children's values
nodeSumChildrenOnly(p, sv, n, own) ==
  IF ChildrenOf(p, n) = {} THEN own ELSE SumOver(sv, ChildrenOf(p, n))

nodeSum(p, sv, n, own) == own + SumOver(sv, ChildrenOf(p, n))

SumInputs ==
  /\ \E p \in UNION {TreesOf(n) : n \in 1..MaxSumNodes} :
       /\ sumParent = p
       /\ rawValue \in [NodesOf(p) -> Weights]
       /\ sumTodo = eachAfterOrder(p)
  /\ sumValue = <<>>
  /\ contrib = <<>>

\* one call of the callback, on the next node in eachAfter's order
SumStep ==
  /\ sumTodo # <<>>
  /\ LET n == Head(sumTodo)
         own == valueOf(rawValue[n])
     IN /\ contrib' = [m \in DOMAIN contrib \cup {n} |->
                         IF m = n THEN own ELSE contrib[m]]
        /\ sumValue' = [m \in DOMAIN sumValue \cup {n} |->
                          IF m = n THEN nodeSum(sumParent, sumValue, n, own)
                          ELSE sumValue[m]]
  /\ sumTodo' = Tail(sumTodo)
  /\ UNCHANGED <<sumParent, rawValue>>
  /\ UNCHANGED <<viewVars, labelVars>>

\* the component's variables, at rest under SumSpec and LabelSpec
ViewIdle ==
  /\ astId = 1
  /\ parent = <<0>>
  /\ circle = <<rootCircle>>
  /\ focusedNode = Null
  /\ transform = initialTransform
  /\ schedules = {}
  /\ nextId = 1
  /\ labelOpacity = [n \in {1} |-> 1]
  /\ groupStyled = FALSE
  /\ hovered = 0
  /\ highlighted = {}
  /\ onNodeHoverProp = 0
  /\ onNodeHoverRef = 0
  /\ effectPending = FALSE
  /\ log = <<>>
  /\ lastAction = [type |-> "none", node |-> Null, build |-> 0]
  /\ interrupted = {}
  /\ endRan = {}
  /\ lastWriter = 0
  /\ lastStartFrom = noTransform

SumInit == SumInputs /\ ViewIdle /\ LabelIdle

SumSpec == SumInit /\ [][SumStep]_vars

\* --------------------------------------------------------------- label loop
Ellipsis == <<0, 0, 0>>

\* a name of the given length; its characters are told apart by position
NameOfLen(len) == [i \in 1..len |-> i]

\* String.prototype.slice(0, end)
slice0(str, end) ==
  LET e == IF end < 0
           THEN (IF Len(str) + end > 0 THEN Len(str) + end ELSE 0)
           ELSE (IF end < Len(str) THEN end ELSE Len(str))
  IN SubSeq(str, 1, e)

\* line 188: Math.floor((arcRadius * Math.PI) / (fontSize * 0.6)),
\* arcRadius = r - 5
maxChars(r, fontSize) == ((r - arcInset) * PiNum * 10) \div (PiDen * fontSize * 6)

\* line 189
truncatedLabel(label, mc) ==
  IF Len(label) > mc THEN slice0(label, mc - ellipsisCut) \o Ellipsis ELSE label

\* radii d3.pack gives: the root's is fixed by the size box
RadiiAt(depth) == IF depth = 0 THEN {rootCircle[3]} ELSE {c[3] : c \in ChildCircles}

LabelInputs ==
  /\ \E depth \in 0..MaxDepth : \E r \in RadiiAt(depth) : \E len \in 0..MaxLabelLen :
       labelIn = [depth |-> depth, r |-> r, name |-> NameOfLen(len)]
  /\ labelOut = [done |-> FALSE, drawn |-> FALSE, text |-> <<>>]

\* the body of nodes.forEach (lines 167-210) for one node
DrawLabel ==
  /\ ~labelOut.done
  /\ labelOut' =
       IF HasLabel(labelIn.depth, labelIn.r)
       THEN [done |-> TRUE, drawn |-> TRUE,
             text |-> truncatedLabel(labelIn.name,
                                     maxChars(labelIn.r, getFontSize(labelIn.depth)))]
       ELSE [done |-> TRUE, drawn |-> FALSE, text |-> <<>>]
  /\ UNCHANGED labelIn
  /\ UNCHANGED <<viewVars, sumVars>>

LabelInit == LabelInputs /\ ViewIdle /\ SumIdle

LabelSpec == LabelInit /\ [][DrawLabel]_vars

\* ------------------------------------------------------------------ claims
Running == {s \in schedules : s.state = "RUNNING"}

\* the target of the last click / reset made on the current build
TargetOfLast ==
  IF lastAction.type = "click" THEN clickTarget(circle[lastAction.node[2]])
  ELSE resetTarget

LabelVisible(m) == m \in DOMAIN labelOpacity /\ labelOpacity[m] = 1

\* C1: the focus state is decided by the last click / reset alone: the clicked
\* circle's ast node after a click, Root (null) after a reset, whatever it was
\* before.
C1_FocusIsLastEvent ==
  /\ lastAction.type = "click" => focusedNode = lastAction.node
  /\ lastAction.type = "reset" => focusedNode = Null

\* a click on circle 2 made while a click on circle 1 was still pending, and a
\* reset made while focused
C1_Witness_Refocus ==
  /\ lastAction.type = "click"
  /\ lastAction.node = <<astId, 2>>
  /\ focusedNode = <<astId, 2>>
  /\ \E s \in schedules : s.kind = "click" /\ s.node = 1

C3_Claim_FocusInTree == focusedNode = Null \/ focusedNode[1] = astId

\* C4: with a listener in the slot, a pointer-enter calls it exactly once with
\* the node's ast node and a pointer-leave calls it exactly once with null.
C4_HoverEmitsOnce ==
  [][ /\ (hovered = 0 /\ hovered' # 0 /\ onNodeHoverRef # 0)
         => log' = Append(log, [to |-> onNodeHoverRef, arg |-> AstNodeOf(hovered')])
      /\ (hovered # 0 /\ hovered' = 0 /\ onNodeHoverRef # 0)
         => log' = Append(log, [to |-> onNodeHoverRef, arg |-> Null]) ]_vars

\* pointer-enter on circle 2, then pointer-leave: the calls are [node 2, null]
C4_Witness_EnterLeave ==
  /\ hovered = 0
  /\ highlighted = {}
  /\ log = << [to |-> 1, arg |-> <<1, 2>>], [to |-> 1, arg |-> Null] >>

\* C5: every listener call goes to the listener the host supplied last.
C5_Claim_NoStaleListener ==
  [][log' # log => log'[Len(log')].to = onNodeHoverProp]_vars

\* C6: once a reset animation has completed, the transform is the root
\* transform translate(margin, margin) scale(1).
C6_ResetRestoresRoot ==
  (schedules = {} /\ lastAction.type = "reset")
    => transform = <<margin * Unit, margin * Unit, Unit>>

\* a click animation cut short by the reset, whose own animation has ended
C6_Witness_ResetMidFlight ==
  /\ astId = 1
  /\ lastAction.type = "reset"
  /\ schedules = {}
  /\ nextId = 3
  /\ interrupted = {1}
  /\ endRan = {2}
  /\ lastWriter = 2
  /\ lastStartFrom # initialTransform
  /\ transform = initialTransform

\* C7: the drawn label never has more characters than maxChars; a label that
\* fits is drawn unchanged, a longer one is cut to maxChars minus the
\* ellipsis' length and the ellipsis appended.
C7_Claim_LabelFits ==
  labelOut.drawn =>
    LET mc == maxChars(labelIn.r, getFontSize(labelIn.depth))
    IN /\ Len(labelOut.text) <= mc
       /\ Len(labelIn.name) <= mc => labelOut.text = labelIn.name
       /\ Len(labelIn.name) > mc
            => labelOut.text = slice0(labelIn.name, mc - Len(Ellipsis)) \o Ellipsis

\* C8: a node whose weight is missing, zero or negative contributes 1; no
\* node contributes a weight that is not positive.
C8_Claim_UnitWeight ==
  \A n \in DOMAIN contrib :
    /\ contrib[n] > 0
    /\ (~rawValue[n].def \/ rawValue[n].v <= 0) => contrib[n] = 1

\* the nodes of n's subtree, n included
RECURSIVE IsUnder(_, _, _)
IsUnder(p, m, n) == m = n \/ (p[m] # 0 /\ IsUnder(p, p[m], n))

Subtree(p, n) == {m \in NodesOf(p) : IsUnder(p, m, n)}

Leaves(p) == {m \in NodesOf(p) : ChildrenOf(p, m) = {}}

WeightOf == [m \in NodesOf(sumParent) |-> valueOf(rawValue[m])]

C9_Claim_LabelVisibility ==
  /\ schedules # {} => \A m \in DOMAIN labelOpacity : labelOpacity[m] = 0
  /\ (schedules = {} /\ lastAction.type = "click" /\ lastAction.build = astId)
       => \A m \in NodesOf(parent) :
            LabelVisible(m) <=>
              (m = lastAction.node[2] /\ circle[m][3] > minLabelRadius)

====
